---------------------------- MODULE Spec2Model ----------------------------
(***************************************************************************)
(* Model of offline_ai_db.py: MultiAIDatabase, a SQLite file holding the   *)
(* table ai_records, the external-content FTS5 index ai_records_fts and    *)
(* the three triggers that keep the index in step with the table.          *)
(*                                                                         *)
(* A text value is a sequence of lexemes: words (with their case) and the  *)
(* separators "," and " ".  "Math solver" is <<"Math", " ", "solver">>.    *)
(* The Python value None is the value None below.                          *)
(*                                                                         *)
(* The writer handle (self._connection of one MultiAIDatabase object) runs *)
(* the public operations one at a time, each as the statements the code    *)
(* executes: the DML statement(s), then commit().  A second handle on the  *)
(* same file only reads; it sees the committed content of the file.        *)
(***************************************************************************)
EXTENDS Integers, Sequences, FiniteSets, TLC

(***************************************************************************)
(* Bounds of the model.                                                    *)
(***************************************************************************)
MaxId == 2        \* rows are inserted only while sqlite_sequence < MaxId
MaxBatch == 2     \* longest payload handed to bulk_add
MaxClock == 1     \* CURRENT_TIMESTAMP takes the values 0..MaxClock

(***************************************************************************)
(* Values.                                                                 *)
(***************************************************************************)
None == <<"<None>">>

Separators == {",", " "}

Columns == <<"name", "provider", "description", "capabilities", "tags">>

AIRecord(n, p, d, c, t) ==
    [name |-> n, provider |-> p, description |-> d, capabilities |-> c, tags |-> t]

MathAI ==
    AIRecord(<<"MathAI">>, <<"EdgeCorp">>, <<"Math", " ", "solver">>,
             <<"reasoning", ",", "algebra">>, <<"offline", ",", "math">>)

CodeAI ==
    AIRecord(<<"CodeAI">>, <<"EdgeCorp">>, <<"Code", " ", "helper">>,
             <<"coding", ",", "debug">>, <<"offline", ",", "dev">>)

VisionBot ==
    AIRecord(<<"VisionBot">>, <<"LocalLab">>, <<"Image", " ", "analysis", " ", "assistant">>,
             <<"vision", ",", "ocr">>, <<"offline", ",", "image">>)

NamelessAI ==
    AIRecord(None, <<"EdgeCorp">>, <<"Math", " ", "solver">>,
             <<"coding", ",", "debug">>, <<"offline", ",", "math">>)

\* two records whose bm25 for "math" is one number in exact arithmetic, by
\* two computations: "math" once in 5 tokens, twice in 13, the average, when
\* they are the two rows, being 9
MathOnce ==
    AIRecord(<<"math">>, <<"zz">>, <<"zz">>, <<"zz">>, <<"zz">>)

MathTwice ==
    AIRecord(<<"math">>, <<"zz">>, <<"math", " ", "zz", " ", "zz">>,
             <<"zz", " ", "zz", " ", "zz">>,
             <<"zz", " ", "zz", " ", "zz", " ", "zz", " ", "zz">>)

GoodRecords == {MathAI, CodeAI, VisionBot}

Records == GoodRecords \cup {NamelessAI}

Payloads == UNION {[1..n -> Records] : n \in 0..MaxBatch}

Queries ==
    { <<"MATH">>, <<"coding", "OR", "algebra">>, <<"offline">>,
      <<"math", "OR", "offline">>, <<"math", "OR">> }

Limits == {-1, 0, 1, 2}

ReaderQueries == { <<"offline">>, <<"coding", "OR", "algebra">> }

ReaderLimits == {-1, 1}

RemoveIds == 1..(MaxId + 1)

TieRecords == {MathAI, CodeAI, MathOnce, MathTwice}

TieQueries == { <<"math">>, <<"offline">>, <<"math", "OR", "offline">> }

TieLimits == {-1, 1}

TiePayloads == { <<MathOnce, NamelessAI>>, <<MathTwice>> }

CloseRecords == {MathAI, NamelessAI}

ClosePayloads == { <<>>, <<MathAI, NamelessAI>> }

CloseQueries == { <<"offline">>, <<"math", "OR">> }

CloseLimits == {-1}

(***************************************************************************)
(* Small helpers.                                                          *)
(***************************************************************************)
Max(S) == CHOOSE x \in S : \A y \in S : y <= x

Min(S) == CHOOSE x \in S : \A y \in S : x <= y

MinOf(a, b) == IF a <= b THEN a ELSE b

RECURSIVE SumOver(_, _)
SumOver(f, S) ==
    IF S = {} THEN 0
    ELSE LET x == CHOOSE y \in S : TRUE IN f[x] + SumOver(f, S \ {x})

RECURSIVE SumSeq(_)
SumSeq(s) == IF s = <<>> THEN 0 ELSE Head(s) + SumSeq(Tail(s))

Restrict(f, S) == [x \in S |-> f[x]]

Extend(f, k, v) == [x \in DOMAIN f \cup {k} |-> IF x = k THEN v ELSE f[x]]

RECURSIVE Ascending(_)
Ascending(S) ==
    IF S = {} THEN <<>> ELSE <<Min(S)>> \o Ascending(S \ {Min(S)})

Range(s) == {s[i] : i \in DOMAIN s}

(***************************************************************************)
(* The unicode61 tokenizer of FTS5: separators are dropped and every word  *)
(* is case-folded.  The same tokenizer reads the indexed text and the      *)
(* query terms.                                                            *)
(***************************************************************************)
Lower(w) ==
    CASE w = "MathAI" -> "mathai"
      [] w = "CodeAI" -> "codeai"
      [] w = "VisionBot" -> "visionbot"
      [] w = "EdgeCorp" -> "edgecorp"
      [] w = "LocalLab" -> "locallab"
      [] w = "Math" -> "math"
      [] w = "MATH" -> "math"
      [] w = "Code" -> "code"
      [] w = "Image" -> "image"
      [] OTHER -> w

IsWord(x) == x \notin Separators

RECURSIVE Tokenize(_)
Tokenize(text) ==
    IF text = <<>> THEN <<>>
    ELSE IF IsWord(Head(text)) THEN <<Lower(Head(text))>> \o Tokenize(Tail(text))
    ELSE Tokenize(Tail(text))


(***************************************************************************)
(* The database file.  schema: the names in sqlite_master, in creation     *)
(* order.  rows: ai_records, id -> the five fields and created_at.  seq:   *)
(* the sqlite_sequence entry of ai_records (0 when there is none).  The    *)
(* FTS5 index stores no text (content='ai_records'): postings is its       *)
(* inverted index, <<token, rowid, column, position>>, and docsize its     *)
(* per-row token counts, one per column; a rowid has an index entry when   *)
(* it has a docsize record or a posting.                                   *)
(***************************************************************************)
EmptyFile ==
    [schema |-> <<>>, rows |-> <<>>, seq |-> 0, postings |-> {}, docsize |-> <<>>]

\* CREATE without IF NOT EXISTS, were it to add the object once more
CreateAgain(schema, name) == Append(schema, name)

\* CREATE ... IF NOT EXISTS
CreateIfNotExists(schema, name) ==
    IF name \in Range(schema) THEN schema ELSE Append(schema, name)

RECURSIVE CreateAll(_, _)
CreateAll(schema, names) ==
    IF names = <<>> THEN schema
    ELSE CreateAll(CreateIfNotExists(schema, Head(names)), Tail(names))

SchemaObjects ==
    <<"ai_records", "ai_records_fts", "ai_records_ai", "ai_records_ad", "ai_records_au">>

\* _initialize_schema: five CREATE ... IF NOT EXISTS statements and a commit.
InitializeSchema(db) ==
    [db EXCEPT !.schema = CreateAll(db.schema, SchemaObjects)]

HasTrigger(db, name) == name \in Range(db.schema)

Fields(r) == [c \in 1..Len(Columns) |->
    CASE c = 1 -> r.name [] c = 2 -> r.provider [] c = 3 -> r.description
      [] c = 4 -> r.capabilities [] OTHER -> r.tags]

PostingsOf(id, vals) ==
    UNION { { <<Tokenize(vals[c])[k], id, c, k>> : k \in 1..Len(Tokenize(vals[c])) }
            : c \in 1..Len(Columns) }

\* INSERT INTO ai_records_fts(rowid, name, ...) VALUES (...)
FtsInsert(db, id, vals) ==
    [db EXCEPT !.postings = @ \cup PostingsOf(id, vals),
               !.docsize = Extend(@, id, [c \in 1..Len(Columns) |-> Len(Tokenize(vals[c]))])]

\* INSERT INTO ai_records_fts(ai_records_fts, rowid, name, ...) VALUES ('delete', ...)
FtsDelete(db, id, vals) ==
    [db EXCEPT !.postings = @ \ PostingsOf(id, vals),
               !.docsize = Restrict(@, DOMAIN @ \ {id})]

IndexedIds(db) == DOMAIN db.docsize \cup {p[2] : p \in db.postings}

NotNullViolated(r) == \E c \in 1..Len(Columns) : Fields(r)[c] = None

\* id INTEGER PRIMARY KEY AUTOINCREMENT: one more than the largest rowid the
\* table has ever held, which sqlite_sequence records.
NextRowid(db) ==
    IF DOMAIN db.rows = {} THEN db.seq + 1
    ELSE (IF db.seq >= Max(DOMAIN db.rows) THEN db.seq ELSE Max(DOMAIN db.rows)) + 1

\* the INSERT as it would run did it store each text case-folded
InsertRowFolded(db, r, now) ==
    IF NotNullViolated(r) THEN db
    ELSE LET id == NextRowid(db)
             row == [name |-> Tokenize(r.name), provider |-> Tokenize(r.provider),
                     description |-> Tokenize(r.description),
                     capabilities |-> Tokenize(r.capabilities),
                     tags |-> Tokenize(r.tags), created_at |-> now]
         IN  FtsInsert([db EXCEPT !.rows = Extend(@, id, row), !.seq = id], id, Fields(row))

\* INSERT INTO ai_records(name, provider, description, capabilities, tags)
\* VALUES (?, ?, ?, ?, ?), with trigger ai_records_ai.  A NOT NULL failure
\* aborts the statement and leaves the database as it was.
InsertRow(db, r, now) ==
    IF NotNullViolated(r) THEN db
    ELSE LET id == NextRowid(db)
             row == [name |-> r.name, provider |-> r.provider,
                     description |-> r.description, capabilities |-> r.capabilities,
                     tags |-> r.tags, created_at |-> now]
             stored == [db EXCEPT !.rows = Extend(@, id, row), !.seq = id]
         IN  IF HasTrigger(db, "ai_records_ai") THEN FtsInsert(stored, id, Fields(row))
             ELSE stored

\* the DELETE as it would run were the trigger ai_records_ad missing
DeleteRowNoTrigger(db, id) ==
    [db EXCEPT !.rows = Restrict(@, DOMAIN @ \ {id})]

\* DELETE FROM ai_records WHERE id = ?, with trigger ai_records_ad.
DeleteRow(db, id) ==
    IF id \notin DOMAIN db.rows THEN db
    ELSE LET old == db.rows[id]
             deleted == [db EXCEPT !.rows = Restrict(@, DOMAIN @ \ {id})]
         IN  IF HasTrigger(db, "ai_records_ad") THEN FtsDelete(deleted, id, Fields(old))
             ELSE deleted

\* sqlite3_changes() of the DELETE statement
DeleteCount(db, id) == IF id \in DOMAIN db.rows THEN 1 ELSE 0

\* the UPDATE as it would run did the trigger ai_records_au only insert the
\* new values, without its 'delete' statement for the old ones
UpdateRowNoDelete(db, id, r) ==
    IF id \notin DOMAIN db.rows THEN db
    ELSE LET new == [name |-> r.name, provider |-> r.provider,
                     description |-> r.description, capabilities |-> r.capabilities,
                     tags |-> r.tags, created_at |-> db.rows[id].created_at]
         IN  FtsInsert([db EXCEPT !.rows[id] = new], id, Fields(new))

\* UPDATE ai_records SET name = ?, provider = ?, description = ?,
\* capabilities = ?, tags = ? WHERE id = ?, with trigger ai_records_au: the
\* 'delete' of the old values from the index, then the insert of the new ones
UpdateRow(db, id, r) ==
    IF id \notin DOMAIN db.rows THEN db
    ELSE LET old == db.rows[id]
             new == [name |-> r.name, provider |-> r.provider,
                     description |-> r.description, capabilities |-> r.capabilities,
                     tags |-> r.tags, created_at |-> old.created_at]
             updated == [db EXCEPT !.rows[id] = new]
         IN  IF HasTrigger(db, "ai_records_au")
             THEN FtsInsert(FtsDelete(updated, id, Fields(old)), id, Fields(new))
             ELSE updated

(***************************************************************************)
(* list_all: SELECT id, name, ..., created_at FROM ai_records ORDER BY id.  *)
(***************************************************************************)
RowDict(db, id) ==
    [id |-> id, name |-> db.rows[id].name, provider |-> db.rows[id].provider,
     description |-> db.rows[id].description, capabilities |-> db.rows[id].capabilities,
     tags |-> db.rows[id].tags, created_at |-> db.rows[id].created_at]

RECURSIVE Descending(_)
Descending(S) ==
    IF S = {} THEN <<>> ELSE <<Max(S)>> \o Descending(S \ {Max(S)})

\* ORDER BY id DESC
OrderByIdDesc(ids) == Descending(ids)

\* ORDER BY id
OrderById(ids) == Ascending(ids)

ListAll(db) ==
    LET ids == OrderById(DOMAIN db.rows)
    IN  [i \in 1..Len(ids) |-> RowDict(db, ids[i])]

(***************************************************************************)
(* The FTS5 query of search.  A query is the sequence of its lexemes       *)
(* (blanks between them left out).  The queries of the model are barewords *)
(* joined by OR or by juxtaposition (an implicit AND): the query is split  *)
(* at each OR into groups of barewords.  An empty group, or a group that   *)
(* holds a separator, is a syntax error.                                   *)
(***************************************************************************)
RECURSIVE SplitOr(_, _)
SplitOr(q, cur) ==
    IF q = <<>> THEN <<cur>>
    ELSE IF Head(q) = "OR" THEN <<cur>> \o SplitOr(Tail(q), <<>>)
    ELSE SplitOr(Tail(q), Append(cur, Head(q)))

QueryGroups(q) == SplitOr(q, <<>>)

SyntaxError(q) ==
    \E g \in Range(QueryGroups(q)) : g = <<>> \/ \E w \in Range(g) : ~IsWord(w)

RECURSIVE Flatten(_)
Flatten(groups) ==
    IF groups = <<>> THEN <<>> ELSE Tokenize(Head(groups)) \o Flatten(Tail(groups))

\* the phrases of the query, in order; each is one token
Phrases(q) == Flatten(QueryGroups(q))

\* number of occurrences of token t in the indexed row id, over all columns
TermFreq(db, id, t) == Cardinality({p \in db.postings : p[1] = t /\ p[2] = id})

\* a MATCH that would take OR for AND: every group of the query must match
MatchesRowEveryGroup(db, q, id) ==
    \A g \in Range(QueryGroups(q)) :
        \A t \in Range(Tokenize(g)) : TermFreq(db, id, t) > 0

\* MATCH: the row has every term of some OR-group of the query
MatchesRow(db, q, id) ==
    \E g \in Range(QueryGroups(q)) :
        \A t \in Range(Tokenize(g)) : TermFreq(db, id, t) > 0

\* FROM ai_records_fts f JOIN ai_records r ON r.id = f.rowid WHERE ai_records_fts MATCH ?
Matching(db, q) ==
    {id \in IndexedIds(db) \cap DOMAIN db.rows : MatchesRow(db, q, id)}

(***************************************************************************)
(* bm25(ai_records_fts).  For a row of D tokens FTS5 sums, over the        *)
(* phrases of the query in their order,                                    *)
(*   idf * tf * (k1 + 1) / (tf + k1 * (1 - b + b * D / avgdl))             *)
(* with k1 = 1.2, b = 0.75, avgdl = nToken / nRow and                      *)
(*   idf = ln((nRow - nHit + 0.5) / (nHit + 0.5)), 10^-6 if that is <= 0   *)
(* and returns the sum negated, so the best match has the least score.  tf *)
(* counts the instances of the phrase that the match of the row reports:   *)
(* those of the phrases of an OR-group that the row matches.               *)
(*                                                                         *)
(* FTS5 computes this in double precision.  The model knows a score by     *)
(*   hi, lo  its value in fixed point, negated: hi counts units of 10^-4   *)
(*           and sums the terms of positive idf, lo counts units of 10^-10 *)
(*           and sums the terms of idf 10^-6; a term is                    *)
(*           idf * 22 * tf * nToken                                        *)
(*             / (10 * tf * nToken + 3 * nToken + 9 * D * nRow)            *)
(*   by      the computation that gave it: the non-zero terms of the sum   *)
(*           in their order, each [hit, tf] (hit is nHit when the idf is   *)
(*           positive, 0 when it is 10^-6), D, nRow and nToken             *)
(* Two scores of one computation are the same double.  The fixed point is  *)
(* less exact than the double: a term of hi is off by less than 4 units    *)
(* (the logarithms are rounded to a unit, the quotient is truncated), a    *)
(* term of lo by less than 1.  Two scores further apart than that are two  *)
(* doubles in that order.  Two scores of different computations that are   *)
(* closer (equal in exact arithmetic, for one) are two doubles whose order *)
(* the roundings of the floating-point operations decide; the model does   *)
(* not compute them: see rounding, below.                                  *)
(***************************************************************************)
LnScaled(n) ==
    CASE n = 1 -> 0
      [] n = 3 -> 10986
      [] n = 5 -> 16094
      [] n = 7 -> 19459
      [] n = 9 -> 21972
      [] n = 11 -> 23979
      [] n = 13 -> 25649
      [] n = 15 -> 27081
      [] OTHER -> 28332

DocLen(db, id) == SumSeq(db.docsize[id])

RowCount(db) == Cardinality(DOMAIN db.docsize)

TokenTotal(db) == SumOver([id \in DOMAIN db.docsize |-> DocLen(db, id)], DOMAIN db.docsize)

HitCount(db, t) == Cardinality({p[2] : p \in {x \in db.postings : x[1] = t}})

IdfPositive(nRow, nHit) == nRow - nHit > nHit

Idf(nRow, nHit) == LnScaled(2 * (nRow - nHit) + 1) - LnScaled(2 * nHit + 1)

TermWeight(idf, tf, docLen, nRow, nToken) ==
    (idf * 22 * tf * nToken) \div (10 * tf * nToken + 3 * nToken + 9 * docLen * nRow)

\* the instances of each phrase that the match of row id reports, group by
\* group: the occurrences of the phrase when the row has every phrase of the
\* group, none when it has not
RECURSIVE GroupFreqs(_, _, _)
GroupFreqs(db, groups, id) ==
    IF groups = <<>> THEN <<>>
    ELSE LET ts == Tokenize(Head(groups))
             hit == \A t \in Range(ts) : TermFreq(db, id, t) > 0
         IN  [i \in 1..Len(ts) |-> IF hit THEN TermFreq(db, id, ts[i]) ELSE 0]
             \o GroupFreqs(db, Tail(groups), id)

\* the terms of the sum of row id, one per phrase: hit tells the idf of the
\* phrase (a phrase that no row holds has tf 0 in every row)
Terms(db, q, id) ==
    LET phrases == Phrases(q)
        freqs == GroupFreqs(db, QueryGroups(q), id)
        nRow == RowCount(db)
    IN  [i \in 1..Len(phrases) |->
            LET nHit == HitCount(db, phrases[i])
            IN  [hit |-> IF IdfPositive(nRow, nHit) THEN nHit ELSE 0, tf |-> freqs[i]]]

RECURSIVE Bm25Sum(_, _, _, _, _)
Bm25Sum(terms, positive, docLen, nRow, nToken) ==
    IF terms = <<>> THEN 0
    ELSE LET x == Head(terms)
         IN  (IF (x.hit > 0) = positive
              THEN TermWeight(IF positive THEN Idf(nRow, x.hit) ELSE 10000,
                              x.tf, docLen, nRow, nToken)
              ELSE 0)
             + Bm25Sum(Tail(terms), positive, docLen, nRow, nToken)

Bm25(db, q, id) ==
    LET terms == Terms(db, q, id)
        docLen == DocLen(db, id)
        nRow == RowCount(db)
        nToken == TokenTotal(db)
    IN  [hi |-> 0 - Bm25Sum(terms, TRUE, docLen, nRow, nToken),
         lo |-> 0 - Bm25Sum(terms, FALSE, docLen, nRow, nToken),
         by |-> [terms |-> SelectSeq(terms, LAMBDA x : x.tf > 0), len |-> docLen,
                 rows |-> nRow, tokens |-> nToken]]

HiTerms(s) == SelectSeq(s.by.terms, LAMBDA x : x.hit > 0)

LoTerms(s) == SelectSeq(s.by.terms, LAMBDA x : x.hit = 0)

\* the terms of positive idf of a and of b sum to the same double
SameHi(a, b) ==
    /\ HiTerms(a) = HiTerms(b)
    /\ \/ HiTerms(a) = <<>>
       \/ <<a.by.len, a.by.rows, a.by.tokens>> = <<b.by.len, b.by.rows, b.by.tokens>>

\* the double of a is less than the double of b, whatever the roundings: the
\* fixed-point values are further apart than they are inexact
Below(a, b) ==
    \/ a.hi + 4 * (Len(HiTerms(a)) + Len(HiTerms(b))) < b.hi
    \/ SameHi(a, b) /\ a.lo + Len(LoTerms(a)) + Len(LoTerms(b)) < b.lo

\* the double of a is at most the double of b, on a build whose roundings
\* are r: r holds the pairs <<x, y>> of computations that the fixed point
\* does not tell apart and of which x gives at most the double y gives
AtMost(r, a, b) == Below(a, b) \/ a.by = b.by \/ <<a.by, b.by>> \in r

\* the pairs of computations, among the scores, that the fixed point does
\* not tell apart
Undecided(scores) ==
    {<<p[1].by, p[2].by>> :
        p \in {x \in scores \X scores : /\ x[1].by # x[2].by
                                        /\ ~Below(x[1], x[2])
                                        /\ ~Below(x[2], x[1])}}

\* what the roundings can be, once the scores are computed on a build whose
\* roundings are known to be r: r, and an order for every pair of Undecided
\* that r leaves open, such that the doubles are ordered
Roundings(r, scores) ==
    LET open == {p \in Undecided(scores) : p \notin r /\ <<p[2], p[1]>> \notin r}
    IN  {x \in {r \cup new : new \in SUBSET open} :
            /\ \A a, b \in scores : AtMost(x, a, b) \/ AtMost(x, b, a)
            /\ \A a, b, c \in scores :
                   (AtMost(x, a, b) /\ AtMost(x, b, c)) => AtMost(x, a, c)}

\* FROM ... WHERE ai_records_fts MATCH ?: the matching rows, each with its
\* score
Scored(db, q) == {[id |-> id, score |-> Bm25(db, q, id)] : id \in Matching(db, q)}

\* ORDER BY score DESC
BeforeDesc(r, a, b) ==
    \/ ~AtMost(r, a.score, b.score)
    \/ AtMost(r, b.score, a.score) /\ a.id < b.id

\* ORDER BY score: rows of equal score stay in the order the index yields
\* them, by ascending rowid.  a and b are rows of Scored, r the roundings of
\* the build.
Before(r, a, b) ==
    \/ ~AtMost(r, b.score, a.score)
    \/ AtMost(r, a.score, b.score) /\ a.id < b.id

RECURSIVE OrderByScore(_, _)
OrderByScore(r, rows) ==
    IF rows = {} THEN <<>>
    ELSE LET first == CHOOSE a \in rows : \A b \in rows \ {a} : Before(r, a, b)
         IN  <<first>> \o OrderByScore(r, rows \ {first})

\* LIMIT ?: a negative limit is no limit
ApplyLimit(s, limit) ==
    IF limit < 0 THEN s ELSE SubSeq(s, 1, MinOf(limit, Len(s)))

SearchDict(db, id, score) ==
    [id |-> id, name |-> db.rows[id].name, provider |-> db.rows[id].provider,
     description |-> db.rows[id].description, capabilities |-> db.rows[id].capabilities,
     tags |-> db.rows[id].tags, score |-> score]

\* the rows of search, on a build whose roundings are r
Search(db, q, limit, r) ==
    LET rows == ApplyLimit(OrderByScore(r, Scored(db, q)), limit)
    IN  [i \in 1..Len(rows) |-> SearchDict(db, rows[i].id, rows[i].score)]

(***************************************************************************)
(* State.                                                                  *)
(*   disk      the committed content of the database file                  *)
(*   view      the database as the writer's connection sees it: disk plus  *)
(*             the changes of its open transaction; disk while the handle  *)
(*             is closed                                                   *)
(*   conn      "open" or "closed": self._connection                        *)
(*   inTxn     self._connection.in_transaction                             *)
(*   pc        where the writer is: "idle" between public operations,      *)
(*             "add_commit", "bulk_exec", "remove_commit" inside one;      *)
(*             "update_commit" after an UPDATE issued by direct SQL        *)
(*   payload   the records executemany has still to insert                 *)
(*   rowcount, lastrowid   the cursor of the running operation             *)
(*   call      the public operation called last on the writer, its input   *)
(*   ret       what that operation returned or raised                      *)
(*   clock     CURRENT_TIMESTAMP                                           *)
(*   rres      what the reader's last list_all or search returned          *)
(* Locks on the file (rollback journal: SHARED to read, RESERVED to write, *)
(* PENDING and EXCLUSIVE to commit):                                       *)
(*   lock      the lock the transaction of the writer's connection holds:  *)
(*             "none", "shared", "reserved" or "pending"                   *)
(*   thrown    an execute or executemany of this handle has raised, or the *)
(*             commit after an executemany: the caller may still refer to  *)
(*             the exception, whose traceback holds the cursor of the call *)
(*             and its prepared statement                                  *)
(*   lingering the lock of a closed connection whose write transaction is  *)
(*             still on the file: "none", "reserved" or "pending"          *)
(*   reading   closed connections whose transactions still hold SHARED     *)
(*             locks on the file                                           *)
(* History:                                                                *)
(*   assigned  every id an INSERT has given to a row                       *)
(*   failed    ids of the rows a bulk_add inserted before it raised, while *)
(*             those rows exist                                            *)
(*   order     the ids of the rows of view, in the order of their INSERTs  *)
(*   given     id -> the record handed to the INSERT that made row id, for *)
(*             the rows of view                                            *)
(*   saved     order and given as the last commit left them: the rows of   *)
(*             disk                                                        *)
(*   before    while bulk_add runs: the view it started from               *)
(*   removed   the ids for which remove has returned True                  *)
(* The build:                                                              *)
(*   rounding  what the searches made so far have shown of the roundings   *)
(*             of the floating point that computes bm25: the pairs         *)
(*             <<x, y>> of computations that the fixed point does not tell *)
(*             apart and of which x gave at most the double y gave.  A     *)
(*             computation gives the same double each time it is made, so  *)
(*             a pair stays once it is there.                              *)
(***************************************************************************)
VARIABLES disk, view, conn, inTxn, pc, payload, rowcount, lastrowid, call, ret,
          clock, rres, assigned, failed, order, given, before, removed, rounding,
          lock, thrown, lingering, reading, saved

vars == <<disk, view, conn, inTxn, pc, payload, rowcount, lastrowid, call, ret,
          clock, rres, assigned, failed, order, given, before, removed, rounding,
          lock, thrown, lingering, reading, saved>>

locks == <<lock, thrown, lingering, reading>>

cursorVars == <<payload, rowcount, lastrowid>>

history == <<assigned, failed, order, given>>

marks == <<before, removed>>

Ok(v) == [kind |-> "ok", val |-> v]

Raised(e) == [kind |-> e, val |-> 0]

Call(op, arg) == [op |-> op, arg |-> arg]

\* cursor.execute of the SELECT of search, and fetchall: with LIMIT 0 SQLite
\* returns no row before the MATCH expression is ever parsed; otherwise a
\* malformed query raises OperationalError (fts5: syntax error).  r is the
\* roundings of the build.
Execute(db, q, limit, r) ==
    IF limit = 0 THEN Ok(<<>>)
    ELSE IF SyntaxError(q) THEN Raised("OperationalError")
    ELSE Ok(Search(db, q, limit, r))

\* what the roundings can be after the SELECT of search has run on a build
\* whose roundings are known to be r: the SELECT computes the score of every
\* matching row, unless it returns or raises before
ExecuteRoundings(db, q, limit, r) ==
    IF limit = 0 \/ SyntaxError(q) THEN {r}
    ELSE Roundings(r, {x.score : x \in Scored(db, q)})

\* a cursor() that would not look at the state of the connection
CursorNeverFails(c) == FALSE

\* self._connection.cursor() raises ProgrammingError("Cannot operate on a
\* closed database.") once the connection is closed
CursorFails(c) == c = "closed"

\* cursor.rowcount >= 0
RowRemovedAlways(n) == n >= 0

\* cursor.rowcount > 0
RowRemoved(n) == n > 0

\* the implicit BEGIN the sqlite3 module issues before INSERT and DELETE
Begin(t) == TRUE

\* what execute, executemany and commit raise when SQLite does not get the
\* lock it needs within the timeout of the connection: OperationalError
\* (database is locked)
Busy == Raised("OperationalError")

\* the lock of a transaction after a statement of it has begun to write:
\* RESERVED, or the PENDING lock a refused commit has left it
AfterWrite(l) == IF l = "pending" THEN "pending" ELSE "reserved"

\* the lock of a connection after a SELECT of it has run: inside a
\* transaction (t) the SHARED lock stays until the transaction ends
AfterSelect(t, l) == IF t /\ l = "none" THEN "shared" ELSE l

\* INSERT, DELETE and UPDATE need the RESERVED lock, which one connection
\* holds at a time: a closed connection whose write transaction lingers has it
WriteBlocked == lingering # "none"

\* the commit of a transaction that has written needs the EXCLUSIVE lock,
\* which no SHARED lock of another connection allows
CommitBlocked == lock \in {"reserved", "pending"} /\ reading

\* no connection gets a SHARED lock while another one holds PENDING (a commit
\* of it was refused): no other connection reads the file or its schema
ReadBlocked == lock = "pending" \/ lingering = "pending"

\* __init__ on a new file: connect, _initialize_schema
Init ==
    /\ disk = InitializeSchema(EmptyFile)
    /\ view = InitializeSchema(EmptyFile)
    /\ conn = "open"
    /\ inTxn = FALSE
    /\ pc = "idle"
    /\ payload = <<>>
    /\ rowcount = 0
    /\ lastrowid = 0
    /\ call = Call("open", 0)
    /\ ret = Ok(0)
    /\ clock = 0
    /\ rres = Ok(<<>>)
    /\ assigned = {}
    /\ failed = {}
    /\ order = <<>>
    /\ given = <<>>
    /\ saved = [order |-> <<>>, given |-> <<>>]
    /\ before = EmptyFile
    /\ removed = {}
    /\ rounding = {}
    /\ lock = "none"
    /\ thrown = FALSE
    /\ lingering = "none"
    /\ reading = FALSE

\* a public operation called on the closed handle
ClosedCall(op, arg) ==
    /\ call' = Call(op, arg)
    /\ ret' = Raised("ProgrammingError")
    /\ UNCHANGED <<disk, view, conn, inTxn, pc, cursorVars, clock, rres, history, marks, rounding, locks>>

\* add_ai, lines 91-98: cursor(), execute(INSERT).  The INSERT takes the
\* RESERVED lock before it looks at the values.
AddAiExecute(r) ==
    /\ pc = "idle"
    /\ view.seq < MaxId
    /\ IF CursorFails(conn) THEN ClosedCall("add_ai", r)
       ELSE /\ call' = Call("add_ai", r)
            /\ inTxn' = Begin(inTxn)
            /\ IF WriteBlocked
               THEN /\ ret' = Busy
                    /\ thrown' = TRUE
                    /\ UNCHANGED <<view, pc, lastrowid, assigned, order, given, lock>>
               ELSE IF NotNullViolated(r)
               THEN /\ ret' = Raised("IntegrityError")
                    /\ thrown' = TRUE
                    /\ lock' = AfterWrite(lock)
                    /\ UNCHANGED <<view, pc, lastrowid, assigned, order, given>>
               ELSE /\ view' = InsertRow(view, r, clock)
                    /\ lastrowid' = NextRowid(view)
                    /\ assigned' = assigned \cup {NextRowid(view)}
                    /\ order' = Append(order, NextRowid(view))
                    /\ given' = Extend(given, NextRowid(view), r)
                    /\ pc' = "add_commit"
                    /\ lock' = AfterWrite(lock)
                    /\ UNCHANGED <<ret, thrown>>
            /\ UNCHANGED <<disk, conn, payload, rowcount, clock, rres, failed, marks, rounding,
                           lingering, reading>>
    /\ UNCHANGED saved

\* add_ai, lines 99-100: commit(), return int(cursor.lastrowid); a commit
\* that does not get its lock raises out of add_ai and leaves the
\* transaction as it is
AddAiCommit ==
    /\ pc = "add_commit"
    /\ IF CommitBlocked
       THEN /\ ret' = Busy
            /\ lock' = "pending"
            /\ UNCHANGED <<disk, inTxn>>
       ELSE /\ disk' = view
            /\ inTxn' = FALSE
            /\ ret' = Ok(lastrowid)
            /\ lock' = "none"
    /\ lastrowid' = 0
    /\ pc' = "idle"
    /\ UNCHANGED <<view, conn, payload, rowcount, call, clock, rres, history, marks, rounding,
                   thrown, lingering, reading>>
    /\ saved' = IF CommitBlocked THEN saved ELSE [order |-> order, given |-> given]

\* bulk_add, lines 103-108: cursor(), the payload, executemany begins
BulkAddStart(rs) ==
    /\ pc = "idle"
    /\ view.seq + Len(rs) <= MaxId
    /\ IF CursorFails(conn) THEN ClosedCall("bulk_add", rs)
       ELSE /\ call' = Call("bulk_add", rs)
            /\ inTxn' = Begin(inTxn)
            /\ payload' = rs
            /\ rowcount' = 0
            /\ pc' = "bulk_exec"
            /\ before' = view
            /\ UNCHANGED <<disk, view, conn, lastrowid, ret, clock, rres, history, removed, rounding,
                           locks>>
    /\ UNCHANGED saved

\* the rows this executemany has inserted so far
BatchIds == {order[i] : i \in (Len(order) - rowcount + 1)..Len(order)}

\* bulk_add, lines 108-114: executemany runs the INSERT for the next record;
\* an INSERT that does not get its lock, or that fails, raises out of bulk_add
BulkAddStep ==
    /\ pc = "bulk_exec"
    /\ payload # <<>>
    /\ IF WriteBlocked
       THEN /\ ret' = Busy
            /\ thrown' = TRUE
            /\ failed' = failed \cup BatchIds
            /\ payload' = <<>>
            /\ rowcount' = 0
            /\ pc' = "idle"
            /\ before' = EmptyFile
            /\ UNCHANGED <<view, assigned, order, given, lock>>
       ELSE IF NotNullViolated(Head(payload))
       THEN /\ ret' = Raised("IntegrityError")
            /\ thrown' = TRUE
            /\ lock' = AfterWrite(lock)
            /\ failed' = failed \cup BatchIds
            /\ payload' = <<>>
            /\ rowcount' = 0
            /\ pc' = "idle"
            /\ before' = EmptyFile
            /\ UNCHANGED <<view, assigned, order, given>>
       ELSE /\ view' = InsertRow(view, Head(payload), clock)
            /\ assigned' = assigned \cup {NextRowid(view)}
            /\ order' = Append(order, NextRowid(view))
            /\ given' = Extend(given, NextRowid(view), Head(payload))
            /\ payload' = Tail(payload)
            /\ rowcount' = rowcount + 1
            /\ lock' = AfterWrite(lock)
            /\ UNCHANGED <<ret, failed, pc, before, thrown>>
    /\ UNCHANGED <<disk, conn, inTxn, lastrowid, call, clock, rres, removed, rounding,
                   lingering, reading>>
    /\ UNCHANGED saved

\* bulk_add, lines 115-116: commit(), return cursor.rowcount; a commit that
\* does not get its lock raises out of bulk_add and leaves the transaction,
\* with the rows of the batch, as it is; executemany leaves its statement on
\* the cursor, which the exception of the commit holds
BulkAddCommit ==
    /\ pc = "bulk_exec"
    /\ payload = <<>>
    /\ IF CommitBlocked
       THEN /\ ret' = Busy
            /\ lock' = "pending"
            /\ thrown' = TRUE
            /\ failed' = failed \cup BatchIds
            /\ UNCHANGED <<disk, inTxn>>
       ELSE /\ disk' = view
            /\ inTxn' = FALSE
            /\ ret' = Ok(rowcount)
            /\ lock' = "none"
            /\ UNCHANGED <<failed, thrown>>
    /\ rowcount' = 0
    /\ pc' = "idle"
    /\ before' = EmptyFile
    /\ UNCHANGED <<view, conn, payload, lastrowid, call, clock, rres, assigned, order, given,
                   removed, rounding, lingering, reading>>
    /\ saved' = IF CommitBlocked THEN saved ELSE [order |-> order, given |-> given]

\* remove, lines 146-147: cursor(), execute(DELETE)
RemoveExecute(id) ==
    /\ pc = "idle"
    /\ IF CursorFails(conn) THEN ClosedCall("remove", id)
       ELSE /\ call' = Call("remove", id)
            /\ inTxn' = Begin(inTxn)
            /\ IF WriteBlocked
               THEN /\ ret' = Busy
                    /\ thrown' = TRUE
                    /\ UNCHANGED <<view, pc, rowcount, failed, order, given, lock>>
               ELSE /\ rowcount' = DeleteCount(view, id)
                    /\ view' = DeleteRow(view, id)
                    /\ failed' = failed \ {id}
                    /\ order' = SelectSeq(order, LAMBDA x : x # id)
                    /\ given' = Restrict(given, DOMAIN given \ {id})
                    /\ pc' = "remove_commit"
                    /\ lock' = AfterWrite(lock)
                    /\ UNCHANGED <<ret, thrown>>
            /\ UNCHANGED <<disk, conn, payload, lastrowid, clock, rres, assigned, marks, rounding,
                           lingering, reading>>
    /\ UNCHANGED saved

\* remove, lines 148-149: commit(), return cursor.rowcount > 0; a commit that
\* does not get its lock raises out of remove and leaves the transaction as
\* it is
RemoveCommit ==
    /\ pc = "remove_commit"
    /\ IF CommitBlocked
       THEN /\ ret' = Busy
            /\ lock' = "pending"
            /\ UNCHANGED <<disk, inTxn, removed>>
       ELSE /\ disk' = view
            /\ inTxn' = FALSE
            /\ ret' = Ok(RowRemoved(rowcount))
            /\ removed' = IF RowRemoved(rowcount) THEN removed \cup {call.arg} ELSE removed
            /\ lock' = "none"
    /\ rowcount' = 0
    /\ pc' = "idle"
    /\ UNCHANGED <<view, conn, payload, lastrowid, call, clock, rres, history, before, rounding,
                   thrown, lingering, reading>>
    /\ saved' = IF CommitBlocked THEN saved ELSE [order |-> order, given |-> given]

\* direct SQL on self._connection (no public operation updates): cursor(),
\* execute(UPDATE) of a row with well-formed values
UpdateExecute(id, r) ==
    /\ pc = "idle"
    /\ IF CursorFails(conn) THEN ClosedCall("update", <<id, r>>)
       ELSE /\ call' = Call("update", <<id, r>>)
            /\ inTxn' = Begin(inTxn)
            /\ IF WriteBlocked
               THEN /\ ret' = Busy
                    /\ thrown' = TRUE
                    /\ UNCHANGED <<view, pc, rowcount, lock>>
               ELSE /\ rowcount' = DeleteCount(view, id)
                    /\ view' = UpdateRow(view, id, r)
                    /\ pc' = "update_commit"
                    /\ lock' = AfterWrite(lock)
                    /\ UNCHANGED <<ret, thrown>>
            /\ UNCHANGED <<disk, conn, payload, lastrowid, clock, rres, history, marks, rounding,
                           lingering, reading>>
    /\ UNCHANGED saved

\* direct SQL: commit() after the UPDATE
UpdateCommit ==
    /\ pc = "update_commit"
    /\ IF CommitBlocked
       THEN /\ ret' = Busy
            /\ lock' = "pending"
            /\ UNCHANGED <<disk, inTxn>>
       ELSE /\ disk' = view
            /\ inTxn' = FALSE
            /\ ret' = Ok(rowcount)
            /\ lock' = "none"
    /\ rowcount' = 0
    /\ pc' = "idle"
    /\ UNCHANGED <<view, conn, payload, lastrowid, call, clock, rres, history, marks, rounding,
                   thrown, lingering, reading>>
    /\ saved' = IF CommitBlocked THEN saved ELSE [order |-> order, given |-> given]

\* search, lines 118-132.  The SELECT takes its SHARED lock also when LIMIT 0
\* or a malformed query ends it early; an execute that raises leaves its
\* exception with the caller.
SearchCall(q, limit) ==
    /\ pc = "idle"
    /\ IF CursorFails(conn) THEN ClosedCall("search", <<q, limit>>)
       ELSE /\ call' = Call("search", <<q, limit>>)
            /\ \E r \in ExecuteRoundings(view, q, limit, rounding) :
                   /\ rounding' = r
                   /\ ret' = Execute(view, q, limit, r)
            /\ lock' = AfterSelect(inTxn, lock)
            /\ thrown' = (thrown \/ ret'.kind # "ok")
            /\ UNCHANGED <<disk, view, conn, inTxn, pc, cursorVars, clock, rres, history, marks,
                           lingering, reading>>
    /\ UNCHANGED saved

\* list_all, lines 134-143
ListAllCall ==
    /\ pc = "idle"
    /\ IF CursorFails(conn) THEN ClosedCall("list_all", 0)
       ELSE /\ call' = Call("list_all", 0)
            /\ ret' = Ok(ListAll(view))
            /\ lock' = AfterSelect(inTxn, lock)
            /\ UNCHANGED <<disk, view, conn, inTxn, pc, cursorVars, clock, rres, history, marks,
                           rounding, thrown, lingering, reading>>
    /\ UNCHANGED saved

\* close, lines 151-152.  close takes no cursor: on the closed handle it
\* returns as well and changes nothing.  sqlite3_close_v2 ends the connection,
\* and rolls back what it has not committed, once no prepared statement of it
\* is left.  A cursor keeps its statement when its execute has raised (after
\* an executemany in any case), and the exception keeps the cursor: when the
\* caller still refers to such an exception (kept; in main() close runs in a
\* finally clause, while the exception passes through), the transaction
\* stays on the file with its lock, until the exception goes
\* (ReleaseLingering, ReleaseReading); otherwise close rolls back.  The
\* handle is closed either way, and the rows of its transaction are seen by
\* no one any more.
Close ==
    /\ pc = "idle"
    /\ conn' = "closed"
    /\ view' = disk
    /\ inTxn' = FALSE
    /\ lock' = "none"
    /\ thrown' = FALSE
    /\ \E kept \in (IF thrown THEN BOOLEAN ELSE {FALSE}) :
           /\ lingering' = IF kept /\ lock \in {"reserved", "pending"} THEN lock ELSE lingering
           /\ reading' = (reading \/ (kept /\ lock = "shared"))
    /\ call' = Call("close", 0)
    /\ ret' = Ok(0)
    /\ failed' = failed \cap DOMAIN disk.rows
    /\ order' = saved.order
    /\ given' = saved.given
    /\ UNCHANGED <<disk, pc, cursorVars, clock, rres, assigned, marks, rounding>>
    /\ UNCHANGED saved

\* the caller lets go of the exception that keeps a closed connection with
\* its write transaction: its statement is finalized, SQLite rolls the
\* transaction back and frees its lock.  Nothing of the transaction reaches
\* the file.
ReleaseLingering ==
    /\ lingering # "none"
    /\ lingering' = "none"
    /\ UNCHANGED <<disk, view, conn, inTxn, pc, cursorVars, call, ret, clock, rres, history, marks,
                   rounding, lock, thrown, reading>>
    /\ UNCHANGED saved

\* the caller lets go of the exceptions that keep the closed connections
\* whose transactions have only read: their SHARED locks go
ReleaseReading ==
    /\ reading
    /\ reading' = FALSE
    /\ UNCHANGED <<disk, view, conn, inTxn, pc, cursorVars, call, ret, clock, rres, history, marks,
                   rounding, lock, thrown, lingering>>
    /\ UNCHANGED saved

\* __init__, lines 28-32, on the file a closed handle has left: connect and
\* the CREATE ... IF NOT EXISTS statements read the schema and write nothing
\* on a file that holds the objects; while a lingering connection holds
\* PENDING they cannot read, and __init__ raises
Open ==
    /\ pc = "idle"
    /\ conn = "closed"
    /\ call' = Call("open", 0)
    /\ IF ReadBlocked
       THEN /\ ret' = Busy
            /\ UNCHANGED <<disk, view, conn, inTxn>>
       ELSE /\ conn' = "open"
            /\ disk' = InitializeSchema(disk)
            /\ view' = InitializeSchema(disk)
            /\ inTxn' = FALSE
            /\ ret' = Ok(0)
    /\ UNCHANGED <<pc, cursorVars, clock, rres, history, marks, rounding, locks>>
    /\ UNCHANGED saved

\* time passes: CURRENT_TIMESTAMP moves on
Tick ==
    /\ clock < MaxClock
    /\ clock' = clock + 1
    /\ UNCHANGED <<disk, view, conn, inTxn, pc, cursorVars, call, ret, rres, history, marks, rounding,
                   locks>>
    /\ UNCHANGED saved

\* list_all on the second handle
ReaderListAll ==
    /\ rres' = IF ReadBlocked THEN Busy ELSE Ok(ListAll(disk))
    /\ UNCHANGED <<disk, view, conn, inTxn, pc, cursorVars, call, ret, clock, history, marks, rounding,
                   locks>>
    /\ UNCHANGED saved

\* search on the second handle
ReaderSearch(q, limit) ==
    /\ IF ReadBlocked
       THEN rres' = Busy /\ UNCHANGED rounding
       ELSE \E r \in ExecuteRoundings(disk, q, limit, rounding) :
                /\ rounding' = r
                /\ rres' = Execute(disk, q, limit, r)
    /\ UNCHANGED <<disk, view, conn, inTxn, pc, cursorVars, call, ret, clock, history, marks, locks>>
    /\ UNCHANGED saved

\* __init__, lines 28-32, of a second handle on the file, while the writer's
\* handle exists: its statements see the committed schema
ReaderOpen ==
    /\ IF ReadBlocked
       THEN rres' = Busy /\ UNCHANGED disk
       ELSE rres' = Ok(<<>>) /\ disk' = InitializeSchema(disk)
    /\ UNCHANGED <<view, conn, inTxn, pc, cursorVars, call, ret, clock, history, marks, rounding,
                   locks>>
    /\ UNCHANGED saved

Next ==
    \/ \E r \in Records : AddAiExecute(r)
    \/ AddAiCommit
    \/ \E rs \in Payloads : BulkAddStart(rs)
    \/ BulkAddStep
    \/ BulkAddCommit
    \/ \E id \in RemoveIds : RemoveExecute(id)
    \/ RemoveCommit
    \/ \E q \in Queries, limit \in Limits : SearchCall(q, limit)
    \/ ListAllCall

\* handles are closed and opened again on the file; what a closed handle
\* leaves on the file lingers and goes
NextClose ==
    \/ \E r \in CloseRecords : AddAiExecute(r)
    \/ AddAiCommit
    \/ \E rs \in ClosePayloads : BulkAddStart(rs)
    \/ BulkAddStep
    \/ BulkAddCommit
    \/ \E id \in RemoveIds : RemoveExecute(id)
    \/ RemoveCommit
    \/ \E q \in CloseQueries, limit \in CloseLimits : SearchCall(q, limit)
    \/ ListAllCall
    \/ Close
    \/ ReleaseLingering
    \/ ReleaseReading
    \/ Open

\* the second handle reads while the writer works
NextReader ==
    \/ \E r \in Records : AddAiExecute(r)
    \/ AddAiCommit
    \/ \E rs \in Payloads : BulkAddStart(rs)
    \/ BulkAddStep
    \/ BulkAddCommit
    \/ \E id \in RemoveIds : RemoveExecute(id)
    \/ RemoveCommit
    \/ Close
    \/ ReleaseLingering
    \/ Open
    \/ ReaderListAll
    \/ \E q \in ReaderQueries, limit \in ReaderLimits : ReaderSearch(q, limit)

\* handles are closed and opened on the file, the second one while the
\* writer works
NextOpen ==
    \/ \E r \in CloseRecords : AddAiExecute(r)
    \/ AddAiCommit
    \/ \E rs \in ClosePayloads : BulkAddStart(rs)
    \/ BulkAddStep
    \/ BulkAddCommit
    \/ \E id \in RemoveIds : RemoveExecute(id)
    \/ RemoveCommit
    \/ ListAllCall
    \/ Close
    \/ ReleaseLingering
    \/ ReleaseReading
    \/ Open
    \/ ReaderOpen
    \/ ReaderListAll

\* the rows are inserted, removed and read while time passes
NextClock ==
    \/ \E r \in Records : AddAiExecute(r)
    \/ AddAiCommit
    \/ \E rs \in Payloads : BulkAddStart(rs)
    \/ BulkAddStep
    \/ BulkAddCommit
    \/ \E id \in RemoveIds : RemoveExecute(id)
    \/ RemoveCommit
    \/ \E q \in ReaderQueries, limit \in ReaderLimits : SearchCall(q, limit)
    \/ ListAllCall
    \/ Tick

\* rows are inserted, removed and, by direct SQL, updated
NextUpdate ==
    \/ \E r \in Records : AddAiExecute(r)
    \/ AddAiCommit
    \/ \E id \in RemoveIds : RemoveExecute(id)
    \/ RemoveCommit
    \/ \E id \in RemoveIds, r \in GoodRecords : UpdateExecute(id, r)
    \/ UpdateCommit

\* rows whose scores are equal, or are told apart by the roundings alone,
\* are inserted, removed and searched, on the writer's handle and on the
\* second one
NextTies ==
    \/ \E r \in TieRecords : AddAiExecute(r)
    \/ AddAiCommit
    \/ \E rs \in TiePayloads : BulkAddStart(rs)
    \/ BulkAddStep
    \/ BulkAddCommit
    \/ \E id \in RemoveIds : RemoveExecute(id)
    \/ RemoveCommit
    \/ \E q \in TieQueries, limit \in TieLimits : SearchCall(q, limit)
    \/ \E q \in TieQueries, limit \in TieLimits : ReaderSearch(q, limit)

Spec == Init /\ [][Next]_vars

SpecClose == Init /\ [][NextClose]_vars

SpecReader == Init /\ [][NextReader]_vars

SpecOpen == Init /\ [][NextOpen]_vars

SpecClock == Init /\ [][NextClock]_vars

SpecUpdate == Init /\ [][NextUpdate]_vars

SpecTies == Init /\ [][NextTies]_vars

(***************************************************************************)
(* Properties.                                                             *)
(***************************************************************************)
\* the index a database holds when every row, and nothing else, is indexed
\* under its current field values
IndexOfRows(db) ==
    [postings |-> UNION {PostingsOf(id, Fields(db.rows[id])) : id \in DOMAIN db.rows},
     docsize |-> [id \in DOMAIN db.rows |->
                    [c \in 1..Len(Columns) |-> Len(Tokenize(Fields(db.rows[id])[c]))]]]

Consistent(db) ==
    /\ IndexedIds(db) = DOMAIN db.rows
    /\ db.postings = IndexOfRows(db).postings
    /\ \A id \in DOMAIN db.rows : db.docsize[id] = IndexOfRows(db).docsize[id]

\* C1: after any sequence of add_ai, bulk_add and remove, in the writer's
\* view and in the file, the ids with an index entry are the ids of the rows
\* of ai_records, each entry holds the tokens of the five fields of its row,
\* and an id that has no row (removed, never assigned) has no entry.
C1_IndexMatchesRows == Consistent(view) /\ Consistent(disk)

\* C1 witness: remove has just deleted one of several rows that add_ai or
\* bulk_add had inserted
C1_Witness ==
    /\ pc = "idle" /\ call.op = "remove" /\ ret.kind = "ok" /\ ret.val
    /\ DOMAIN view.rows # {}
    /\ call.arg \in assigned /\ call.arg \notin IndexedIds(view)

\* C2: bulk_add is all-or-nothing: no row that a bulk_add inserted before it
\* raised is ever stored or indexed in the database file.
C2_BulkAddAllOrNothing ==
    \A id \in failed : id \notin DOMAIN disk.rows /\ id \notin IndexedIds(disk)

\* C3: every id an INSERT gives to a new row is greater than every id given
\* to a row before, also across close and re-open: no id is used twice.
C3_IdsNeverReused ==
    [][\A id \in DOMAIN view'.rows \ DOMAIN view.rows : \A old \in assigned : id > old]_vars

\* C4: what the second handle reads is never a row without its index entry
\* nor an index entry without its row, and never a part of a bulk_add batch:
\* no row of a bulk_add that raised.
C4_ReaderSeesNoPartialBatch ==
    /\ Consistent(disk)
    /\ rres.kind = "ok" => \A i \in 1..Len(rres.val) : rres.val[i].id \notin failed

\* C5: whenever a public operation has returned, with a result or with an
\* error, the connection has no open transaction and no uncommitted change.
C5_NoTransactionBetweenOperations ==
    pc = "idle" => ~inTxn /\ view = disk

\* C6: from close on the file keeps the rows and index entries it had at
\* the moment of close, whatever is called on the closed handle and whenever
\* the transaction it left is rolled back; and every add_ai, bulk_add,
\* remove, list_all or search on the closed handle raises ProgrammingError
\* (closed database) and changes nothing: not the file, not the handle, not
\* the locks on the file.
C6_ClosedHandleRefuses ==
    [][/\ conn' = "closed" => disk' = disk
       /\ (/\ conn = "closed"
           /\ \/ \E r \in CloseRecords : AddAiExecute(r)
              \/ \E rs \in ClosePayloads : BulkAddStart(rs)
              \/ \E id \in RemoveIds : RemoveExecute(id)
              \/ \E q \in CloseQueries, limit \in CloseLimits : SearchCall(q, limit)
              \/ ListAllCall) =>
            /\ ret'.kind = "ProgrammingError"
            /\ <<disk, view, conn, inTxn, pc, cursorVars, locks>>'
                   = <<disk, view, conn, inTxn, pc, cursorVars, locks>>]_vars

\* C6 witness: remove of an id that has a row in the file was called on the
\* closed handle, while the transaction the handle left still holds its lock
\* on the file
C6_Witness ==
    /\ conn = "closed" /\ call.op = "remove" /\ ret.kind = "ProgrammingError"
    /\ call.arg \in DOMAIN disk.rows
    /\ lingering = "reserved"

FiveFields(d) == <<d.name, d.provider, d.description, d.capabilities, d.tags>>

\* C8: when add_ai(r) has returned id i, row i is in the file and is r; and
\* every row an INSERT has made is, until remove is called with its id (or
\* the INSERT is rolled back), listed by list_all exactly once, with the five
\* field values of the record it was made from.
C8_RoundTrip ==
    /\ pc = "idle" /\ call.op = "add_ai" /\ ret.kind = "ok" =>
            /\ ret.val \in DOMAIN disk.rows /\ ret.val \in DOMAIN given
            /\ given[ret.val] = call.arg
    /\ \A i \in DOMAIN given :
            /\ Cardinality({k \in 1..Len(ListAll(view)) : ListAll(view)[k].id = i}) = 1
            /\ \A k \in 1..Len(ListAll(view)) :
                   ListAll(view)[k].id = i =>
                       FiveFields(ListAll(view)[k]) = FiveFields(given[i])

\* C8 witness: add_ai has returned the id of a second row, made from a
\* record with capital letters and separators in its texts, and list_all
\* would list that row with the record's values
C8_Witness ==
    /\ pc = "idle" /\ conn = "open" /\ call.op = "add_ai" /\ ret.kind = "ok"
    /\ ret.val >= 2 /\ call.arg = MathAI
    /\ \E k \in 1..Len(ListAll(view)) :
           /\ ListAll(view)[k].id = ret.val
           /\ FiveFields(ListAll(view)[k]) = FiveFields(MathAI)

\* C9: list_all returns every row of the table exactly once, by strictly
\* ascending id, which is the order in which the rows were inserted.
C9_ListAllInInsertionOrder ==
    pc = "idle" /\ call.op = "list_all" /\ ret.kind = "ok" =>
        /\ Len(ret.val) = Cardinality(DOMAIN view.rows)
        /\ {ret.val[k].id : k \in 1..Len(ret.val)} = DOMAIN view.rows
        /\ \A k \in 1..(Len(ret.val) - 1) : ret.val[k].id < ret.val[k + 1].id
        /\ [k \in 1..Len(ret.val) |-> ret.val[k].id] = order
        /\ \A k \in 1..Len(ret.val) : ret.val[k] = RowDict(view, ret.val[k].id)

\* C9 witness: list_all returned at least two rows
C9_Witness ==
    pc = "idle" /\ call.op = "list_all" /\ ret.kind = "ok" /\ Len(ret.val) >= 2

\* C10: on the open handle, for a positive limit and a well-formed query,
\* search returns min(limit, number of matching rows) entries, all of them
\* matching rows, by ascending score, and no matching row left out has a
\* lower score than a returned one; with no matching row it returns the
\* empty list, no error.
C10_SearchReturnsBestMatches ==
    (/\ pc = "idle" /\ conn = "open" /\ call.op = "search"
     /\ call.arg[2] > 0 /\ ~SyntaxError(call.arg[1])) =>
        LET q == call.arg[1]
            limit == call.arg[2]
            matching == Matching(view, q)
            n == IF ret.kind = "ok" THEN Len(ret.val) ELSE 0
            returned == {ret.val[i].id : i \in 1..n}
        IN  /\ ret.kind = "ok"
            /\ n = MinOf(limit, Cardinality(matching))
            /\ \A i \in 1..n :
                   /\ ret.val[i].id \in matching
                   /\ ret.val[i].score = Bm25(view, q, ret.val[i].id)
                   /\ FiveFields(ret.val[i]) = FiveFields(view.rows[ret.val[i].id])
            /\ \A i, j \in 1..n :
                   i < j => /\ ret.val[i].id # ret.val[j].id
                            /\ AtMost(rounding, ret.val[i].score, ret.val[j].score)
            /\ \A id \in matching \ returned :
                   \A i \in 1..n : AtMost(rounding, ret.val[i].score, Bm25(view, q, id))
            /\ matching = {} => ret.val = <<>>

\* C10 witness: search with limit 1 returned the better of two matching rows
\* of different scores
C10_Witness ==
    /\ pc = "idle" /\ call.op = "search" /\ call.arg[2] = 1 /\ ret.kind = "ok"
    /\ Len(ret.val) = 1
    /\ \E id \in Matching(view, call.arg[1]) :
           Below(ret.val[1].score, Bm25(view, call.arg[1], id))

\* C11: search handles every limit <= 0 in one way: for a well-formed query
\* on the open handle, limit 0 and every negative limit give the same outcome,
\* and that outcome is an error or the list of all matching rows (no limit).
C11_NonPositiveLimitConsistent ==
    (/\ pc = "idle" /\ conn = "open" /\ call.op = "search"
     /\ call.arg[2] <= 0 /\ ~SyntaxError(call.arg[1])) =>
        /\ \A limit \in {l \in Limits : l <= 0} : Execute(view, call.arg[1], limit, rounding) = ret
        /\ ret.kind = "ok" => Len(ret.val) = Cardinality(Matching(view, call.arg[1]))

\* C12: search with a malformed query raises the query-syntax error
\* (OperationalError), whatever the limit, never returns a list in its place,
\* and changes neither the rows, the index, the file, the transaction state
\* nor the handle.
C12_MalformedQueryRaises ==
    [][\A q \in Queries, limit \in Limits :
           (conn = "open" /\ SyntaxError(q) /\ SearchCall(q, limit)) =>
               /\ ret'.kind = "OperationalError"
               /\ <<disk, view, conn, inTxn, pc>>' = <<disk, view, conn, inTxn, pc>>]_vars

\* the connection's view after add_ai has been called with each record of rs
\* in turn
RECURSIVE AddAiEach(_, _, _)
AddAiEach(db, rs, now) ==
    IF rs = <<>> THEN db ELSE AddAiEach(InsertRow(db, Head(rs), now), Tail(rs), now)

\* C13: when bulk_add(rs) returns for n well-formed records, it returns n and
\* the rows, the index and the file are what n add_ai calls with the same
\* records in the same order leave: the view holds the n new rows in order,
\* and the file holds the view when n > 0 (each add_ai commits) and is left as
\* it was when n = 0 (no add_ai call, nothing is committed).
C13_BulkAddAsRepeatedAddAi ==
    [][(/\ pc = "bulk_exec" /\ pc' = "idle" /\ ret'.kind = "ok"
        /\ Range(call.arg) \subseteq GoodRecords) =>
           /\ ret'.val = Len(call.arg)
           /\ view' = AddAiEach(before, call.arg, clock)
           /\ disk' = IF Len(call.arg) = 0 THEN disk ELSE view']_vars

\* C14: opening a handle on a file that already holds the database, after a
\* close or while the writer's handle is open, leaves the file as it is: the
\* schema still is the five objects, each once, and no row or index entry is
\* added, removed or changed; the handle opened after a close sees the file.
\* This holds as well while the transaction of a closed handle lingers on
\* the file, and for an open that raises.
C14_OpenIsIdempotent ==
    [][(Open \/ ReaderOpen) =>
           /\ disk' = disk
           /\ disk'.schema = SchemaObjects
           /\ Open => view' = disk]_vars

\* C14 witness: a handle was opened again on a file that holds rows, while
\* the transaction of the handle closed before still holds its lock on the
\* file
C14_Witness ==
    /\ pc = "idle" /\ conn = "open" /\ call.op = "open" /\ ret.kind = "ok"
    /\ DOMAIN disk.rows # {} /\ view = disk
    /\ lingering = "reserved"

\* C15: two searches with the same query and the same limit, with no call
\* of add_ai, bulk_add or remove between them, return the same: the same
\* rows in the same order with the same scores, also when rows have equal
\* scores, and the same error when the first raised.  The second search is
\* the next call on the writer's handle, or it is made on the second handle
\* once the writer's search has returned: it then returns what the SELECT of
\* search gives on the file.
C15_SearchDeterministic ==
    [][/\ (/\ pc = "idle" /\ conn = "open" /\ call.op = "search"
           /\ pc' = "idle" /\ conn' = "open" /\ call'.op = "search"
           /\ call'.arg = call.arg) => ret' = ret
       /\ (pc = "idle" /\ conn = "open" /\ call.op = "search" /\ ~ReadBlocked) =>
              \A r \in ExecuteRoundings(disk, call.arg[1], call.arg[2], rounding) :
                  Execute(disk, call.arg[1], call.arg[2], r) = ret]_vars

\* the tokens of the five field values of a row
RowTokens(row) == UNION {Range(Tokenize(Fields(row)[c])) : c \in 1..Len(Columns)}

\* the query evaluated against the tokenized field values of a row
TextMatches(row, q) ==
    \E g \in Range(QueryGroups(q)) : Range(Tokenize(g)) \subseteq RowTokens(row)

\* C16: every entry search returns is a row that is in the table when search
\* is called and whose field values match the query, and is no id for which
\* remove has returned True; and when the limit is at least the number of
\* rows in the table that match, every such row is returned.
C16_SearchReturnsLiveMatches ==
    (pc = "idle" /\ conn = "open" /\ call.op = "search" /\ ret.kind = "ok") =>
        LET q == call.arg[1]
            limit == call.arg[2]
            live == {id \in DOMAIN view.rows : TextMatches(view.rows[id], q)}
            returned == {ret.val[i].id : i \in 1..Len(ret.val)}
        IN  /\ returned \subseteq live
            /\ returned \cap removed = {}
            /\ (~SyntaxError(q) /\ limit >= Cardinality(live)) => returned = live

\* C16 witness: after a remove that returned True for a lower id, a search
\* with a limit that is large enough returned the row that is left
C16_Witness ==
    /\ pc = "idle" /\ conn = "open" /\ call.op = "search" /\ ret.kind = "ok"
    /\ Len(ret.val) >= 1 /\ call.arg[2] >= Len(ret.val)
    /\ \E id \in removed : id < ret.val[1].id

\* C17: remove(id) changes nothing but row id and its index entry.  Its
\* DELETE leaves every other row (id, field values, created_at), every other
\* index entry, the schema and the next id to be assigned as they are, and
\* with no row id it leaves the whole view as it is; when remove returns, the
\* file differs from the file before the call by row id and its index entry
\* only, and not at all when id was absent.  search and list_all change
\* neither view nor file nor the transaction state.
C17_RemoveChangesOnlyItsRow ==
    [][/\ (pc = "idle" /\ pc' = "remove_commit") =>
            /\ view'.rows = Restrict(view.rows, DOMAIN view.rows \ {call'.arg})
            /\ view'.postings = {p \in view.postings : p[2] # call'.arg}
            /\ view'.docsize = Restrict(view.docsize, DOMAIN view.docsize \ {call'.arg})
            /\ view'.schema = view.schema
            /\ view'.seq = view.seq /\ NextRowid(view') = NextRowid(view)
            /\ call'.arg \notin DOMAIN view.rows => view' = view
            /\ disk' = disk
       /\ (pc = "remove_commit" /\ pc' = "idle") =>
            /\ view' = view
            /\ disk'.rows = Restrict(disk.rows, DOMAIN disk.rows \ {call.arg})
            /\ disk'.postings = {p \in disk.postings : p[2] # call.arg}
            /\ disk'.seq = disk.seq
            /\ rowcount = 0 => disk' = disk
       /\ (pc = "idle" /\ pc' = "idle" /\ call'.op \in {"search", "list_all"}) =>
            <<view, disk, inTxn>>' = <<view, disk, inTxn>>]_vars

\* C18: an UPDATE of a row of ai_records replaces the row's index entry in
\* the statement that changes the row, inside the same transaction: the row
\* then holds the new values and keeps its created_at, its index entry is
\* that of the new values, it matches a term exactly when the term occurs in
\* its new values (so no longer a term that only its old values held), and
\* the index entries and the rows of all other ids are unchanged; the commit
\* puts row and index entry into the file together.
C18_UpdateReplacesIndexEntry ==
    [][/\ (pc = "idle" /\ pc' = "update_commit" /\ call'.arg[1] \in DOMAIN view.rows) =>
            LET id == call'.arg[1]
                new == call'.arg[2]
            IN  /\ FiveFields(view'.rows[id]) = FiveFields(new)
                /\ view'.rows[id].created_at = view.rows[id].created_at
                /\ {p \in view'.postings : p[2] = id} = PostingsOf(id, Fields(new))
                /\ \A t \in RowTokens(view.rows[id]) \cup RowTokens(new) :
                       (id \in Matching(view', <<t>>)) = (t \in RowTokens(new))
                /\ {p \in view'.postings : p[2] # id} = {p \in view.postings : p[2] # id}
                /\ DOMAIN view'.docsize = DOMAIN view.docsize
                /\ \A o \in DOMAIN view.docsize \ {id} : view'.docsize[o] = view.docsize[o]
                /\ DOMAIN view'.rows = DOMAIN view.rows
                /\ \A o \in DOMAIN view.rows \ {id} : view'.rows[o] = view.rows[o]
                /\ inTxn' /\ disk' = disk
       /\ (pc = "update_commit" /\ pc' = "idle") => disk' = view /\ view' = view]_vars

\* C18 witness: an UPDATE has given a row, one of two, values other than
\* those it was inserted with; the row matches the term vision of its new
\* values and no row matches the term of its old name
C18_Witness ==
    /\ pc = "idle" /\ call.op = "update" /\ ret.kind = "ok" /\ ret.val = 1
    /\ Cardinality(DOMAIN view.rows) >= 2
    /\ call.arg[2] = VisionBot
    /\ given[call.arg[1]] = MathAI
    /\ FiveFields(view.rows[call.arg[1]]) = FiveFields(VisionBot)
    /\ call.arg[1] \in Matching(view, <<"vision">>)
    /\ call.arg[1] \notin Matching(view, <<"algebra">>)

=============================================================================
